---- MODULE Spec2Model ----
(***************************************************************************)
(* Replay engine of flashback (src/replay/src/main.go): flag validation,   *)
(* the ops dispatcher feeding the shared op queue, the worker pool         *)
(* (fetch) with its retry policy (RetryOnSocketFailure), the shared        *)
(* opsExecuted counter, the periodic reporter goroutine and the            *)
(* coordinator's wait for the workers' completion signals.                 *)
(*                                                                         *)
(* The dispatchers, the ops reader, the executor and the stats collector   *)
(* live in package "replay", outside main.go; they are modelled at their   *)
(* interface as the design document describes them.                        *)
(***************************************************************************)
EXTENDS Integers, Sequences, FiniteSets, TLC

\* ------------------------------------------------------------- bounds
MaxWorkers == 2
MaxSrcLen == 2
MaxMaxOps == 2
QueueCap == 1
MaxDispatch == 2

\* Op counts are Go ints (64 bits wide); they are kept as two 16-bit limbs
\* <<high, low>>, which holds every value from 0 to 2^32 - 1, so that
\* 4294967295 is the number the code compares with.
Radix == 2^16

\* the sum of two two-limb numbers
WideAdd(a, b) ==
    <<a[1] + b[1] + ((a[2] + b[2]) \div Radix), (a[2] + b[2]) % Radix>>

\* sample rates are multiples of 1/RateDen
RateDen == 2

\* floor(w * num / den) for a two-limb w: int(sampleRate*float64(maxOps))
WideScale(w, num, den) ==
    LET hi == (w[1] * num) \div den
        lo == (((w[1] * num) % den) * Radix + w[2] * num) \div den
    IN  <<hi + (lo \div Radix), lo % Radix>>

Wide(n) == <<n \div Radix, n % Radix>>

\* a < b on wide values
WideLess(a, b) == a[1] < b[1] \/ (a[1] = b[1] /\ a[2] < b[2])

\* maxOps = 0 is replaced by 4294967295 = 65535 * 2^16 + 65535 in
\* parseFlags (main.go:78)
MaxOpsUnbounded == <<Radix - 1, Radix - 1>>

\* ------------------------------------------------------------- values
Styles == {"stress", "real", "bogus"}

OpTypes == {"insert", "query"}

\* what one invocation of exec.Execute returns, as RetryOnSocketFailure
\* tells the cases apart: nil, *mgo.QueryError, *mgo.LastError,
\* mgo.ErrNotFound, anything else (a socket error)
Outcomes == {"nil", "QueryError", "LastError", "ErrNotFound", "socket"}

Permanent == {"QueryError", "LastError", "ErrNotFound"}

\* the op at 1-based position pos of the recorded source
TypeOf(pos) == IF pos % 2 = 1 THEN "insert" ELSE "query"

\* the k-th op delivered to the queue, read at source position pos
Op(k, pos) == [id |-> k, type |-> TypeOf(pos)]

\* the termination sentinel: a nil *Op
NilOp == [id |-> 0, type |-> "nil"]

VARIABLES
    style,          \* flag -style
    workers,        \* flag -workers
    maxOpsFlag,     \* flag -maxOps as given on the command line
    maxOps,         \* the variable maxOps, rewritten by parseFlags
    verbose,        \* flag -verbose
    srcLen,         \* number of ops in the file -ops_filename
    sampleRate,     \* flag -sample_rate, in units of 1/RateDen
    startTime,      \* flag -start_time
    numSkipOps,     \* flag -numSkipOps
    stamps,         \* the timestamps of the ops in the file, in file order
    base,           \* ops replayed before the part of the run that is
                    \* followed: srcLen, readerPos, delivered, opsExecuted
                    \* and counts are those of the part followed
    mainPC,         \* position of main()
    spawned,        \* loop variable i of main.go:183
    received,       \* main.go:227
    readerOpen,     \* the ops reader has been created
    dpc,            \* position of the dispatcher goroutine
    readerPos,      \* ops read from the source in its current cycle
    delivered,      \* ops the dispatcher has put on the queue
    sentinels,      \* sentinels the dispatcher has put on the queue
    opsChan,        \* the shared op queue
    opsExecuted,    \* main.go:154
    counts,         \* per-type op counts, summed over the workers' collectors
    wpc,            \* position of each worker (fetch)
    op,             \* the op a worker holds
    first,          \* what the first block() returned
    err,            \* what RetryOnSocketFailure returned
    calls,          \* invocations of exec.Execute for the held op
    refreshed,      \* session.Refresh() calls for the held op
    retryLogged,    \* the retry notice of main.go:107 was logged
    errLogged,      \* the op error of main.go:175 was logged
    second,         \* what the second block() returned
    obs,            \* the latency observation of the last block()
    latencyChan,    \* main.go:150
    latencies,      \* the samples the analyzer retains
    rpc,            \* position of the reporter goroutine
    finalReports    \* deferred report() calls made (main.go:218)

optVars == <<sampleRate, startTime, numSkipOps, stamps, base>>
cfgVars == <<style, workers, maxOpsFlag, maxOps, verbose, srcLen, optVars>>
mainVars == <<mainPC, spawned, received>>
dispVars == <<readerOpen, dpc, readerPos, delivered, sentinels>>
workerLocals == <<op, first, err, calls, refreshed, retryLogged, errLogged,
                  second, obs>>
sampVars == <<latencyChan, latencies>>
repVars == <<rpc, finalReports>>

vars == <<cfgVars, mainVars, dispVars, opsChan, opsExecuted, counts, wpc,
          workerLocals, sampVars, repVars>>

WorkerIds == 1..MaxWorkers

\* the process is running: main has neither panicked nor returned
Running == mainPC \notin {"fatal", "returned"}

\* the state in which main() starts
StartState ==
    /\ maxOps = Wide(maxOpsFlag)
    /\ mainPC = "parse"
    /\ spawned = 0
    /\ received = 0
    /\ readerOpen = FALSE
    /\ dpc = "none"
    /\ readerPos = 0
    /\ delivered = 0
    /\ sentinels = 0
    /\ opsChan = <<>>
    /\ opsExecuted = 0
    /\ counts = [t \in OpTypes |-> 0]
    /\ wpc = [w \in WorkerIds |-> "none"]
    /\ op = [w \in WorkerIds |-> NilOp]
    /\ first = [w \in WorkerIds |-> "none"]
    /\ err = [w \in WorkerIds |-> "none"]
    /\ calls = [w \in WorkerIds |-> 0]
    /\ refreshed = [w \in WorkerIds |-> 0]
    /\ retryLogged = [w \in WorkerIds |-> FALSE]
    /\ errLogged = [w \in WorkerIds |-> FALSE]
    /\ second = [w \in WorkerIds |-> "none"]
    /\ obs = [w \in WorkerIds |-> "none"]
    /\ latencyChan = <<>>
    /\ latencies = <<>>
    /\ rpc = "none"
    /\ finalReports = 0

\* a run from its start, with -sample_rate, -start_time and -numSkipOps
\* left at their defaults
Init ==
    /\ style \in Styles
    /\ workers \in -1..MaxWorkers
    /\ maxOpsFlag \in 0..MaxMaxOps
    /\ verbose \in BOOLEAN
    /\ srcLen \in 0..MaxSrcLen
    /\ sampleRate = 0
    /\ startTime = 0
    /\ numSkipOps = 0
    /\ stamps = [i \in 1..srcLen |-> i]
    /\ base = Wide(0)
    /\ StartState

\* ------------------------------------------------------------- main
\* a parseFlags that lacks the check of workers
StyleInvalid == style # "stress" /\ style # "real"

\* parseFlags' verdict: TRUE when it returns an error
FlagsInvalid == (style # "stress" /\ style # "real") \/ workers <= 0

\* a parseFlags that leaves maxOps = 0 as it is
KeepMaxOps(m) == m

\* parseFlags' rewrite of maxOps
NormalizeMaxOps(m) == IF m = Wide(0) THEN MaxOpsUnbounded ELSE m

\* err := parseFlags(); panicOnError(err)
ParseFlags ==
    /\ mainPC = "parse"
    /\ IF FlagsInvalid
       THEN /\ mainPC' = "fatal"
            /\ UNCHANGED maxOps
       ELSE /\ mainPC' = "setup"
            /\ maxOps' = NormalizeMaxOps(maxOps)
    /\ UNCHANGED <<style, workers, maxOpsFlag, verbose, srcLen, optVars,
                   sampVars, spawned, received, dispVars,
                   opsChan, opsExecuted, counts, wpc, workerLocals, repVars>>

\* the reader's position after SetStartTime(ts) from position pos: the ops
\* before ts are passed over, up to the first op that is not before ts or
\* to the end of the file
SetStartTime(pos, ts) ==
    CHOOSE j \in pos..srcLen :
        /\ \A i \in (pos + 1)..j : stamps[i] < ts
        /\ j = srcLen \/ stamps[j + 1] >= ts

\* the reader's position after SkipOps(n) from position pos, -1 when the
\* file ends before n ops are passed over and SkipOps returns an error
SkipOps(pos, n) == IF pos + n > srcLen THEN -1 ELSE pos + n

\* a main that skips by count before it seeks by timestamp
PrepareReaderSkipFirst ==
    LET skipped == IF numSkipOps > 0 THEN SkipOps(0, numSkipOps) ELSE 0
    IN  IF startTime > 0 /\ skipped >= 0
        THEN SetStartTime(skipped, startTime)
        ELSE skipped

\* the reader's position when the dispatcher is handed the reader, -1 when
\* main panics instead: if startTime > 0 { SetStartTime }, then
\* if numSkipOps > 0 { SkipOps }
PrepareReader ==
    LET sought == IF startTime > 0 THEN SetStartTime(0, startTime) ELSE 0
    IN  IF numSkipOps > 0 THEN SkipOps(sought, numSkipOps) ELSE sought

\* the reader is created and positioned and the dispatcher goroutine
\* started (main.go:120-148, the file opened without error), then
\* latencyChan, exit and opsExecuted are made
SetupDispatch ==
    /\ mainPC = "setup"
    /\ readerOpen' = TRUE
    /\ IF PrepareReader < 0
       THEN /\ mainPC' = "fatal"
            /\ UNCHANGED <<dpc, readerPos>>
       ELSE /\ mainPC' = "spawn"
            /\ readerPos' = PrepareReader
            /\ dpc' = "run"
    /\ UNCHANGED <<cfgVars, sampVars, spawned, received, delivered, sentinels,
                   opsChan, opsExecuted, counts, wpc, workerLocals, repVars>>

\* one iteration of the loop at main.go:183: go fetch(i, ...)
SpawnWorker ==
    /\ mainPC = "spawn"
    /\ spawned < workers
    /\ spawned' = spawned + 1
    /\ wpc' = [wpc EXCEPT ![spawned + 1] = "dial"]
    /\ UNCHANGED <<cfgVars, sampVars, mainPC, received, dispVars, opsChan, opsExecuted,
                   counts, workerLocals, repVars>>

\* go func() { ... }() at main.go:190, then main starts waiting
SpawnReporter ==
    /\ mainPC = "spawn"
    /\ spawned >= workers
    /\ mainPC' = "wait"
    /\ rpc' = "check"
    /\ UNCHANGED <<cfgVars, sampVars, spawned, received, dispVars, opsChan, opsExecuted,
                   counts, wpc, workerLocals, finalReports>>

\* the loop at main.go:228 ends and main returns: the process exits
MainReturn ==
    /\ mainPC = "wait"
    /\ ~(received < workers)
    /\ mainPC' = "returned"
    /\ UNCHANGED <<cfgVars, sampVars, spawned, received, dispVars, opsChan, opsExecuted,
                   counts, wpc, workerLocals, repVars>>

\* ------------------------------------------------------------- dispatcher
\* the source has no further op in its current cycle
Exhausted == readerPos >= srcLen

\* a main that wraps no cyclic reader around the source
PlainReader == FALSE

\* the reader handed to the dispatcher is the cyclic one: main wraps the
\* file reader in NewCyclicOpsReader unless style is "stress"
CyclicReader == style # "stress"

\* the ops the dispatcher has delivered since the start of the run
TotalDelivered == WideAdd(base, Wide(delivered))

\* the dispatcher's loop condition: more ops are to be delivered
MoreToDispatch ==
    /\ WideLess(TotalDelivered, maxOps)
    /\ (~CyclicReader => ~Exhausted)

\* the next op is read from the source and pushed onto the queue
DispatchOp ==
    /\ Running
    /\ dpc = "run"
    /\ MoreToDispatch
    /\ ~Exhausted
    /\ delivered < MaxDispatch
    /\ Len(opsChan) < QueueCap
    /\ opsChan' = Append(opsChan, Op(delivered + 1, readerPos + 1))
    /\ delivered' = delivered + 1
    /\ readerPos' = readerPos + 1
    /\ UNCHANGED <<cfgVars, sampVars, mainVars, readerOpen, dpc, sentinels, opsExecuted,
                   counts, wpc, workerLocals, repVars>>

\* real mode: the cyclic reader restarts the source from its beginning
DispatchRestart ==
    /\ Running
    /\ dpc = "run"
    /\ CyclicReader
    /\ MoreToDispatch
    /\ Exhausted
    /\ srcLen > 0
    /\ readerPos' = 0
    /\ UNCHANGED <<cfgVars, sampVars, mainVars, readerOpen, dpc, delivered, sentinels,
                   opsChan, opsExecuted, counts, wpc, workerLocals, repVars>>

\* the last op has been delivered: the dispatcher turns to the sentinels
DispatchEnd ==
    /\ Running
    /\ dpc = "run"
    /\ ~MoreToDispatch
    /\ dpc' = "sentinels"
    /\ UNCHANGED <<cfgVars, sampVars, mainVars, readerOpen, readerPos, delivered,
                   sentinels, opsChan, opsExecuted, counts, wpc, workerLocals,
                   repVars>>

\* one termination sentinel per worker is pushed onto the queue
DispatchSentinel ==
    /\ Running
    /\ dpc = "sentinels"
    /\ sentinels < workers
    /\ Len(opsChan) < QueueCap
    /\ opsChan' = Append(opsChan, NilOp)
    /\ sentinels' = sentinels + 1
    /\ dpc' = IF sentinels + 1 = workers THEN "done" ELSE "sentinels"
    /\ UNCHANGED <<cfgVars, sampVars, mainVars, readerOpen, readerPos, delivered,
                   opsExecuted, counts, wpc, workerLocals, repVars>>

\* ------------------------------------------------------------- workers
\* the shared counter after atomic.AddInt64(&opsExecuted, delta)
AtomicAddInt64(v, delta) == v + delta

\* fetch up to its loop: the worker reports for duty, dials the database
\* and wraps its session and collector in an executor (main.go:156-163)
FetchStart(w) ==
    /\ Running
    /\ wpc[w] = "dial"
    /\ wpc' = [wpc EXCEPT ![w] = "pull"]
    /\ UNCHANGED <<cfgVars, sampVars, mainVars, dispVars, opsChan, opsExecuted, counts,
                   workerLocals, repVars>>

\* a loop that reads the head of the queue and leaves it there
FetchPullPeek(w) ==
    /\ Running
    /\ wpc[w] = "pull"
    /\ Len(opsChan) > 0
    /\ UNCHANGED opsChan
    /\ op' = [op EXCEPT ![w] = Head(opsChan)]
    /\ wpc' = [wpc EXCEPT ![w] = IF Head(opsChan) = NilOp THEN "signal" ELSE "exec"]
    /\ UNCHANGED <<cfgVars, sampVars, mainVars, dispVars, opsExecuted, counts, first, err,
                   calls, refreshed, retryLogged, errLogged, second, obs, repVars>>

\* a loop that lacks the nil check and hands whatever it dequeues to the
\* executor
FetchPullNoNilCheck(w) ==
    /\ Running
    /\ wpc[w] = "pull"
    /\ Len(opsChan) > 0
    /\ opsChan' = Tail(opsChan)
    /\ op' = [op EXCEPT ![w] = Head(opsChan)]
    /\ wpc' = [wpc EXCEPT ![w] = "exec"]
    /\ UNCHANGED <<cfgVars, sampVars, mainVars, dispVars, opsExecuted, counts, first, err,
                   calls, refreshed, retryLogged, errLogged, second, obs, repVars>>

\* a loop that dequeues the sentinel and goes on pulling
FetchPullPastSentinel(w) ==
    /\ Running
    /\ wpc[w] = "pull"
    /\ Len(opsChan) > 0
    /\ opsChan' = Tail(opsChan)
    /\ op' = [op EXCEPT ![w] = Head(opsChan)]
    /\ wpc' = [wpc EXCEPT ![w] = IF Head(opsChan) = NilOp THEN "pull" ELSE "exec"]
    /\ UNCHANGED <<cfgVars, sampVars, mainVars, dispVars, opsExecuted, counts, first, err,
                   calls, refreshed, retryLogged, errLogged, second, obs, repVars>>

\* op := <-opsChan; if op == nil { break }
FetchPull(w) ==
    /\ Running
    /\ wpc[w] = "pull"
    /\ Len(opsChan) > 0
    /\ opsChan' = Tail(opsChan)
    /\ op' = [op EXCEPT ![w] = Head(opsChan)]
    /\ wpc' = [wpc EXCEPT ![w] = IF Head(opsChan) = NilOp THEN "signal" ELSE "exec"]
    /\ UNCHANGED <<cfgVars, sampVars, mainVars, dispVars, opsExecuted, counts, first, err,
                   calls, refreshed, retryLogged, errLogged, second, obs, repVars>>

\* the collectors' counts after a worker's executor has been handed op o:
\* the op is counted under its type in that worker's collector, once, on
\* the first invocation for it
CollectorCount(c, o, ncalls) ==
    IF ncalls = 0 THEN [c EXCEPT ![o.type] = c[o.type] + 1] ELSE c

\* a classification that lacks the comparison with mgo.ErrNotFound
IsRetriedWithoutNotFound(e) == e # "nil" /\ e \notin {"QueryError", "LastError"}

\* where RetryOnSocketFailure goes after the first block() returned e:
\* it returns e for nil and for the permanent kinds, and retries otherwise
IsRetried(e) == e # "nil" /\ e \notin Permanent

\* the condition of main.go:174
LogsOpError(v, e) == v = TRUE /\ e # "nil"

\* RetryOnSocketFailure returns e to fetch, which logs it when verbose
\* (main.go:173-176) and is then about to count the op
ReturnToFetch(w, e) ==
    /\ err' = [err EXCEPT ![w] = e]
    /\ errLogged' = [errLogged EXCEPT ![w] = LogsOpError(verbose, e)]
    /\ wpc' = [wpc EXCEPT ![w] = "count"]

\* a retry that returns the error of the first attempt
RetryResultFirst(firstErr, secondErr) == firstErr

\* what RetryOnSocketFailure returns after its second block(): return block()
RetryResult(firstErr, secondErr) == secondErr

\* the sampler's draw: an observation is kept with probability sampleRate,
\* so one may be dropped unless the rate is 1, and a kept one is sent on
\* latencyChan before Execute returns
ObservationDone(w) ==
    \/ obs[w] = "sent"
    \/ obs[w] = "none" /\ sampleRate < RateDen

\* RetryOnSocketFailure, first part: err := block() and its classification
RetryFirstAttempt(w) ==
    /\ Running
    /\ wpc[w] = "exec"
    /\ \E e \in Outcomes :
        /\ first' = [first EXCEPT ![w] = e]
        /\ IF IsRetried(e)
           THEN /\ wpc' = [wpc EXCEPT ![w] = "retry"]
                /\ UNCHANGED <<err, errLogged>>
           ELSE ReturnToFetch(w, e)
    /\ calls' = [calls EXCEPT ![w] = calls[w] + 1]
    /\ counts' = CollectorCount(counts, op[w], calls[w])
    /\ obs' = [obs EXCEPT ![w] = "none"]
    /\ UNCHANGED <<cfgVars, sampVars, mainVars, dispVars, opsChan, opsExecuted, op,
                   refreshed, retryLogged, second, repVars>>

\* RetryOnSocketFailure, second part: session.Refresh(), the retry notice,
\* return block()
RetrySecondAttempt(w) ==
    /\ Running
    /\ wpc[w] = "retry"
    /\ ObservationDone(w)
    /\ refreshed' = [refreshed EXCEPT ![w] = refreshed[w] + 1]
    /\ retryLogged' = [retryLogged EXCEPT ![w] = TRUE]
    /\ \E e \in Outcomes :
        /\ second' = [second EXCEPT ![w] = e]
        /\ ReturnToFetch(w, RetryResult(first[w], e))
    /\ obs' = [obs EXCEPT ![w] = "none"]
    /\ calls' = [calls EXCEPT ![w] = calls[w] + 1]
    /\ counts' = CollectorCount(counts, op[w], calls[w])
    /\ UNCHANGED <<cfgVars, sampVars, mainVars, dispVars, opsChan, opsExecuted, op, first,
                   repVars>>

\* a loop that adds one to the counter for every invocation of the executor
FetchCountPerCall(w) ==
    /\ Running
    /\ wpc[w] = "count"
    /\ ObservationDone(w)
    /\ opsExecuted' = opsExecuted + calls[w]
    /\ wpc' = [wpc EXCEPT ![w] = "pull"]
    /\ op' = [op EXCEPT ![w] = NilOp]
    /\ first' = [first EXCEPT ![w] = "none"]
    /\ err' = [err EXCEPT ![w] = "none"]
    /\ calls' = [calls EXCEPT ![w] = 0]
    /\ refreshed' = [refreshed EXCEPT ![w] = 0]
    /\ retryLogged' = [retryLogged EXCEPT ![w] = FALSE]
    /\ errLogged' = [errLogged EXCEPT ![w] = FALSE]
    /\ second' = [second EXCEPT ![w] = "none"]
    /\ obs' = [obs EXCEPT ![w] = "none"]
    /\ UNCHANGED <<cfgVars, sampVars, mainVars, dispVars, opsChan, counts, repVars>>

\* a loop that counts the op and breaks when its execution returned an
\* error
FetchCountBreakOnError(w) ==
    /\ Running
    /\ wpc[w] = "count"
    /\ ObservationDone(w)
    /\ opsExecuted' = opsExecuted + 1
    /\ wpc' = [wpc EXCEPT ![w] = IF err[w] = "nil" THEN "pull" ELSE "signal"]
    /\ op' = [op EXCEPT ![w] = NilOp]
    /\ first' = [first EXCEPT ![w] = "none"]
    /\ err' = [err EXCEPT ![w] = "none"]
    /\ calls' = [calls EXCEPT ![w] = 0]
    /\ refreshed' = [refreshed EXCEPT ![w] = 0]
    /\ retryLogged' = [retryLogged EXCEPT ![w] = FALSE]
    /\ errLogged' = [errLogged EXCEPT ![w] = FALSE]
    /\ second' = [second EXCEPT ![w] = "none"]
    /\ obs' = [obs EXCEPT ![w] = "none"]
    /\ UNCHANGED <<cfgVars, sampVars, mainVars, dispVars, opsChan, counts, repVars>>

\* a loop that counts only the ops whose execution returned no error
FetchCountOnSuccess(w) ==
    /\ Running
    /\ wpc[w] = "count"
    /\ ObservationDone(w)
    /\ opsExecuted' = IF err[w] = "nil" THEN opsExecuted + 1 ELSE opsExecuted
    /\ wpc' = [wpc EXCEPT ![w] = "pull"]
    /\ op' = [op EXCEPT ![w] = NilOp]
    /\ first' = [first EXCEPT ![w] = "none"]
    /\ err' = [err EXCEPT ![w] = "none"]
    /\ calls' = [calls EXCEPT ![w] = 0]
    /\ refreshed' = [refreshed EXCEPT ![w] = 0]
    /\ retryLogged' = [retryLogged EXCEPT ![w] = FALSE]
    /\ errLogged' = [errLogged EXCEPT ![w] = FALSE]
    /\ second' = [second EXCEPT ![w] = "none"]
    /\ obs' = [obs EXCEPT ![w] = "none"]
    /\ UNCHANGED <<cfgVars, sampVars, mainVars, dispVars, opsChan, counts, repVars>>

\* atomic.AddInt64(&opsExecuted, 1), and the loop goes round: the locals
\* of the iteration (op, block, err) go out of scope
FetchCount(w) ==
    /\ Running
    /\ wpc[w] = "count"
    /\ ObservationDone(w)
    /\ opsExecuted' = AtomicAddInt64(opsExecuted, 1)
    /\ wpc' = [wpc EXCEPT ![w] = "pull"]
    /\ op' = [op EXCEPT ![w] = NilOp]
    /\ first' = [first EXCEPT ![w] = "none"]
    /\ err' = [err EXCEPT ![w] = "none"]
    /\ calls' = [calls EXCEPT ![w] = 0]
    /\ refreshed' = [refreshed EXCEPT ![w] = 0]
    /\ retryLogged' = [retryLogged EXCEPT ![w] = FALSE]
    /\ errLogged' = [errLogged EXCEPT ![w] = FALSE]
    /\ second' = [second EXCEPT ![w] = "none"]
    /\ obs' = [obs EXCEPT ![w] = "none"]
    /\ UNCHANGED <<cfgVars, sampVars, mainVars, dispVars, opsChan, counts, repVars>>

\* exit <- 1 meets <-exit of main.go:229 (exit is unbuffered);
\* received += 1
ExitSignal(w) ==
    /\ wpc[w] = "signal"
    /\ mainPC = "wait"
    /\ received < workers
    /\ received' = received + 1
    /\ wpc' = [wpc EXCEPT ![w] = "done"]
    /\ UNCHANGED <<cfgVars, sampVars, mainPC, spawned, dispVars, opsChan, opsExecuted,
                   counts, workerLocals, repVars>>

\* ------------------------------------------------------------- sampling
\* cap(latencyChan): make(chan Latency, workers)
LatencyChanCap == workers

\* the sampler's draw keeps the observation of the block() that has just
\* returned and the worker sends it on latencyChan: the send goes through
\* when the channel has room, and the worker waits in it otherwise
KeepSample(w) ==
    /\ Running
    /\ wpc[w] \in {"retry", "count"}
    /\ obs[w] = "none"
    /\ sampleRate > 0
    /\ IF Len(latencyChan) < LatencyChanCap
       THEN /\ latencyChan' = Append(latencyChan, op[w].id)
            /\ obs' = [obs EXCEPT ![w] = "sent"]
       ELSE /\ obs' = [obs EXCEPT ![w] = "sending"]
            /\ UNCHANGED latencyChan
    /\ UNCHANGED <<cfgVars, latencies, mainVars, dispVars, opsChan, opsExecuted,
                   counts, wpc, op, first, err, calls, refreshed, retryLogged,
                   errLogged, second, repVars>>

\* the send of a waiting worker goes through once the channel has room
SendSample(w) ==
    /\ Running
    /\ obs[w] = "sending"
    /\ Len(latencyChan) < LatencyChanCap
    /\ latencyChan' = Append(latencyChan, op[w].id)
    /\ obs' = [obs EXCEPT ![w] = "sent"]
    /\ UNCHANGED <<cfgVars, latencies, mainVars, dispVars, opsChan, opsExecuted,
                   counts, wpc, op, first, err, calls, refreshed, retryLogged,
                   errLogged, second, repVars>>

\* an analyzer whose buffer is as large as maxOps
LatenciesSizeUnscaled == maxOps

\* the buffer size handed to NewStatsAnalyzer: int(sampleRate*float64(maxOps))
LatenciesSize == WideScale(maxOps, sampleRate, RateDen)

\* the analyzer's buffer after sample x has arrived: the oldest sample
\* goes when the buffer is over its size
Push(buf, x, size) ==
    LET all == Append(buf, x)
    IN  IF WideLess(size, Wide(Len(all))) THEN Tail(all) ELSE all

\* the analyzer's buffer after the samples waiting in the channel have
\* been moved to it, oldest first
RECURSIVE Drain(_, _, _)
Drain(buf, ch, size) ==
    IF ch = <<>> THEN buf ELSE Drain(Push(buf, Head(ch), size), Tail(ch), size)

\* GetStatus, as far as the samples go
GetStatus ==
    /\ latencies' = Drain(latencies, latencyChan, LatenciesSize)
    /\ latencyChan' = <<>>

\* ------------------------------------------------------------- reporter
\* a loop condition on the value of -maxOps as it was given
LoopContinuesOnFlag(seen) == seen < maxOpsFlag

\* the loop condition of main.go:220 on the value seen of opsExecuted
LoopContinuesOn(seen) == WideLess(WideAdd(base, Wide(seen)), maxOps)

\* the loop condition of main.go:220 on the current value of opsExecuted
ReportLoopContinues == LoopContinuesOn(opsExecuted)

\* for opsExecuted < int64(maxOps) { time.Sleep(5 * time.Second) ...
\* The read of opsExecuted is a plain read that races with the workers'
\* atomic adds: it yields the current value or one the counter had before.
ReporterCheck ==
    /\ Running
    /\ rpc = "check"
    /\ \E seen \in 0..opsExecuted :
        rpc' = IF LoopContinuesOn(seen) THEN "sleep" ELSE "final"
    /\ UNCHANGED <<cfgVars, sampVars, mainVars, dispVars, opsChan, opsExecuted, counts,
                   wpc, workerLocals, finalReports>>

\* ... report() }: the sleep ends and a periodic report is taken
ReporterReport ==
    /\ Running
    /\ rpc = "sleep"
    /\ rpc' = "check"
    /\ GetStatus
    /\ UNCHANGED <<cfgVars, mainVars, dispVars, opsChan, opsExecuted, counts,
                   wpc, workerLocals, finalReports>>

\* defer report(): the final report, taken when the goroutine's function
\* returns
ReporterFinal ==
    /\ Running
    /\ rpc = "final"
    /\ finalReports' = finalReports + 1
    /\ rpc' = "done"
    /\ GetStatus
    /\ UNCHANGED <<cfgVars, mainVars, dispVars, opsChan, opsExecuted, counts,
                   wpc, workerLocals>>

\* ------------------------------------------------------------- system
Next ==
    \/ ParseFlags
    \/ SetupDispatch
    \/ SpawnWorker
    \/ SpawnReporter
    \/ MainReturn
    \/ DispatchOp
    \/ DispatchRestart
    \/ DispatchEnd
    \/ DispatchSentinel
    \/ \E w \in WorkerIds : FetchStart(w)
    \/ \E w \in WorkerIds : FetchPull(w)
    \/ \E w \in WorkerIds : RetryFirstAttempt(w)
    \/ \E w \in WorkerIds : RetrySecondAttempt(w)
    \/ \E w \in WorkerIds : FetchCount(w)
    \/ \E w \in WorkerIds : ExitSignal(w)
    \/ ReporterCheck
    \/ ReporterReport
    \/ ReporterFinal

Spec == Init /\ [][Next]_vars

\* the Go scheduler runs every goroutine that can take a step
Fairness ==
    /\ WF_vars(ParseFlags \/ SetupDispatch \/ SpawnWorker \/ SpawnReporter \/ MainReturn)
    /\ WF_vars(DispatchOp \/ DispatchRestart \/ DispatchEnd \/ DispatchSentinel)
    /\ \A w \in WorkerIds :
        WF_vars(FetchStart(w) \/ FetchPull(w) \/ RetryFirstAttempt(w)
                \/ RetrySecondAttempt(w) \/ FetchCount(w)
                \/ ExitSignal(w))
    /\ WF_vars(ReporterCheck \/ ReporterReport \/ ReporterFinal)

FairSpec == Spec /\ Fairness

\* a stress run with -maxOps 0 at the point where all but a few of
\* 4294967295 ops have been replayed: the workers wait for the next op, the
\* reporter is about to test its loop condition and the file has srcLen
\* further ops
LongRunPoint ==
    /\ style = "stress"
    /\ workers \in 1..MaxWorkers
    /\ maxOpsFlag = 0
    /\ maxOps = MaxOpsUnbounded
    /\ verbose = FALSE
    /\ srcLen \in 0..MaxSrcLen
    /\ sampleRate = 0
    /\ startTime = 0
    /\ numSkipOps = 0
    /\ stamps = [i \in 1..srcLen |-> i]
    /\ \E k \in 0..MaxSrcLen : base = <<Radix - 1, Radix - 1 - k>>
    /\ mainPC = "wait"
    /\ spawned = workers
    /\ received = 0
    /\ readerOpen = TRUE
    /\ dpc = "run"
    /\ readerPos = 0
    /\ delivered = 0
    /\ sentinels = 0
    /\ opsChan = <<>>
    /\ opsExecuted = 0
    /\ counts = [t \in OpTypes |-> 0]
    /\ wpc = [w \in WorkerIds |-> IF w <= workers THEN "pull" ELSE "none"]
    /\ op = [w \in WorkerIds |-> NilOp]
    /\ first = [w \in WorkerIds |-> "none"]
    /\ err = [w \in WorkerIds |-> "none"]
    /\ calls = [w \in WorkerIds |-> 0]
    /\ refreshed = [w \in WorkerIds |-> 0]
    /\ retryLogged = [w \in WorkerIds |-> FALSE]
    /\ errLogged = [w \in WorkerIds |-> FALSE]
    /\ second = [w \in WorkerIds |-> "none"]
    /\ obs = [w \in WorkerIds |-> "none"]
    /\ latencyChan = <<>>
    /\ latencies = <<>>
    /\ rpc = "check"
    /\ finalReports = 0

\* a run from its start, or a long stress run from a late point of it
LongRunInit == (Init /\ verbose = FALSE) \/ LongRunPoint

LongRunSpec == LongRunInit /\ [][Next]_vars

\* the bounds of the runs with -start_time and -numSkipOps
MaxSeekLen == 3
MaxStamp == 2
MaxSkip == 1

\* the files of n ops whose timestamps do not decrease
StampedFiles(n) ==
    {f \in [1..n -> 1..MaxStamp] : \A i \in 1..n : \A j \in i..n : f[i] <= f[j]}

\* a run of one worker with -start_time and -numSkipOps given or not
SeekInit ==
    /\ style \in {"stress", "real"}
    /\ workers = 1
    /\ maxOpsFlag \in {0, MaxMaxOps}
    /\ verbose = FALSE
    /\ srcLen \in 0..MaxSeekLen
    /\ sampleRate = 0
    /\ startTime \in 0..MaxStamp
    /\ numSkipOps \in 0..MaxSkip
    /\ stamps \in StampedFiles(srcLen)
    /\ base = Wide(0)
    /\ StartState

SeekSpec == SeekInit /\ [][Next]_vars

\* a run of one worker with latency sampling switched on
SampleInit ==
    /\ style \in {"stress", "real"}
    /\ workers = 1
    /\ maxOpsFlag \in 0..MaxMaxOps
    /\ verbose = FALSE
    /\ srcLen \in 0..MaxSrcLen
    /\ sampleRate \in 1..RateDen
    /\ startTime = 0
    /\ numSkipOps = 0
    /\ stamps = [i \in 1..srcLen |-> i]
    /\ base = Wide(0)
    /\ StartState

SampleNext ==
    \/ Next
    \/ \E w \in WorkerIds : KeepSample(w)
    \/ \E w \in WorkerIds : SendSample(w)

SampleSpec == SampleInit /\ [][SampleNext]_vars

\* ------------------------------------------------------------- properties
\* the positions of fetch at which the worker holds a dequeued op
HoldingPCs == {"exec", "retry", "count"}

\* the positions of fetch inside its for loop
LoopPCs == {"pull"} \cup HoldingPCs

\* the workers that hold a dequeued op that is not yet counted
Holding == {w \in WorkerIds : wpc[w] \in HoldingPCs}

\* the indices of the queue that hold an op, and those that hold a sentinel
QueuedOps == {i \in 1..Len(opsChan) : opsChan[i] # NilOp}
QueuedSentinels == {i \in 1..Len(opsChan) : opsChan[i] = NilOp}

\* C1: for every dequeued op the executor is invoked once when the first
\* attempt succeeds or fails with a query error, a last-error report or
\* not-found, and twice when it fails with any other error; never a third
\* time, whatever the second attempt returns.
C1_RetryPolicy ==
    \A w \in WorkerIds :
        /\ calls[w] <= 2
        /\ (wpc[w] = "exec" => calls[w] = 0)
        /\ (wpc[w] = "retry" => calls[w] = 1 /\ first[w] \notin Permanent \cup {"nil"})
        /\ (wpc[w] = "count" =>
                calls[w] = IF first[w] \in Permanent \cup {"nil"} THEN 1 ELSE 2)

C1_Witness ==
    \E v, w \in WorkerIds :
        /\ wpc[v] = "count" /\ first[v] = "ErrNotFound" /\ calls[v] = 1
        /\ wpc[w] = "count" /\ first[w] = "socket" /\ err[w] = "socket"
        /\ calls[w] = 2

\* C2: every op a worker dequeues adds exactly one to opsExecuted, whatever
\* its outcome and whether or not it was retried, and no increment of
\* concurrent workers is lost: the counter is the number of ops delivered
\* that are neither still queued nor held by a worker that has yet to count.
C2_CountedOnce ==
    opsExecuted = delivered - Cardinality(QueuedOps) - Cardinality(Holding)

C2_Witness ==
    /\ opsExecuted = 1
    /\ delivered = 2
    /\ \E w \in WorkerIds : wpc[w] = "count" /\ calls[w] = 2 /\ err[w] # "nil"
    /\ \E w \in WorkerIds : wpc[w] = "pull"

\* the workers main has started
Started == {w \in WorkerIds : w <= workers}

\* the workers that have dequeued a sentinel and left the loop
Left == {w \in WorkerIds : wpc[w] \in {"signal", "done"}}

\* the dispatcher has put the last of its N sentinels on the queue
AllSentinelsSent == dpc = "done" /\ sentinels = workers

\* the coordinator has returned with every worker finished and the queue
\* drained
CleanReturn ==
    /\ mainPC = "returned"
    /\ received = workers
    /\ \A w \in Started : wpc[w] = "done"
    /\ opsChan = <<>>

\* every sentinel sent is in the queue or was taken by exactly one worker
\* that left its loop; every signal received came from one finished worker
SentinelAccounting ==
    /\ sentinels = Cardinality(QueuedSentinels) + Cardinality(Left)
    /\ received = Cardinality({w \in WorkerIds : wpc[w] = "done"})
    /\ received <= workers \/ workers <= 0
    /\ (mainPC = "returned" => received = workers)

\* a worker or the coordinator can take a step
WorkersOrMainEnabled ==
    \/ ENABLED MainReturn
    \/ \E w \in WorkerIds :
        \/ ENABLED FetchStart(w)
        \/ ENABLED FetchPull(w)
        \/ ENABLED RetryFirstAttempt(w)
        \/ ENABLED RetrySecondAttempt(w)
        \/ ENABLED FetchCount(w)
        \/ ENABLED ExitSignal(w)
    \/ ENABLED SpawnWorker
    \/ ENABLED SpawnReporter

\* C3: once the dispatcher has put N sentinels after the last op, each of
\* the N workers takes exactly one of them, leaves its loop and signals
\* once, and the coordinator receives N signals and returns, with no worker
\* left in its loop and no sentinel left in the queue; until then some
\* worker or the coordinator can always move.
C3_Termination ==
    /\ []SentinelAccounting
    /\ [](AllSentinelsSent => CleanReturn \/ WorkersOrMainEnabled)
    /\ [](mainPC = "returned" => CleanReturn /\ AllSentinelsSent)
    /\ (AllSentinelsSent ~> CleanReturn)

C3_Witness ==
    /\ CleanReturn
    /\ workers = MaxWorkers
    /\ sentinels = workers
    /\ delivered > 0

\* the sum of the per-type counts over all collectors
SumCounts == counts["insert"] + counts["query"]

\* the reporter is about to take a report: its sleep is over, or its
\* function is returning and the deferred report runs
AtReportInstant == rpc \in {"sleep", "final"}

\* C4: whenever the reporter takes a status report, the per-type counts of
\* all collectors sum to the value of opsExecuted, in every interleaving and
\* also when ops fail or are retried.
C4_ReportSumEqualsCounter == AtReportInstant => SumCounts = opsExecuted

\* the smaller of two numbers
Min(a, b) == IF a <= b THEN a ELSE b

\* the dispatcher has delivered its last op and turned to the sentinels
DispatchFinished == dpc \in {"sentinels", "done"}

\* C5 as stated: in stress mode with -maxOps M the dispatcher delivers
\* exactly min(M, source length) ops before the sentinels, for every M >= 0,
\* M = 0 included.
C5_DeliversMinOfMaxOpsAndSource ==
    (style = "stress" /\ DispatchFinished) => delivered = Min(maxOpsFlag, srcLen)

\* the smaller of two wide numbers
WideMin(a, b) == IF WideLess(b, a) THEN b ELSE a

\* C5 amended: in stress mode with -maxOps M the dispatcher delivers exactly
\* min(M, source length) ops before the sentinels for every M >= 1, and
\* min(4294967295, source length) ops, the whole source, for M = 0.
C5_DeliversMinOrAll ==
    (style = "stress" /\ DispatchFinished) =>
        Wide(delivered) =
            IF maxOpsFlag = 0
            THEN WideMin(<<Radix - 1, Radix - 1>>, Wide(srcLen))
            ELSE Wide(Min(maxOpsFlag, srcLen))

C5_Witness ==
    /\ style = "stress"
    /\ dpc = "done"
    /\ maxOpsFlag = 0
    /\ srcLen = MaxSrcLen
    /\ delivered = srcLen

\* C6: the reporter emits exactly one final report after opsExecuted has
\* reached maxOps, and main does not return before that final report has
\* been emitted (stated here for the runs in which opsExecuted has reached
\* maxOps by the time main returns).
C6_FinalReportBeforeExit ==
    /\ finalReports <= 1
    /\ (mainPC = "returned" /\ ~ReportLoopContinues => finalReports = 1)

\* C7: no outcome of an op makes a worker leave its pull loop: a worker in
\* its loop leaves it only by dequeuing the sentinel, and after an op, with
\* or without an error, its next step is back to pulling from the queue.
C7_OnlySentinelEndsLoop ==
    [][\A w \in WorkerIds :
        /\ (wpc[w] \in LoopPCs /\ wpc'[w] \notin LoopPCs =>
                /\ wpc[w] = "pull"
                /\ Len(opsChan) > 0
                /\ Head(opsChan) = NilOp
                /\ opsChan' = Tail(opsChan))
        /\ (wpc[w] = "count" /\ wpc'[w] # "count" => wpc'[w] = "pull")]_vars

C7_Witness ==
    /\ workers = 1
    /\ opsExecuted = 1
    /\ wpc[1] = "count"
    /\ first[1] = "socket"
    /\ err[1] = "socket"

\* C8: when style is neither "stress" nor "real", or workers is not
\* positive, startup fails before anything runs: no op source is opened, no
\* dispatcher, worker or reporter is started, no op is executed and
\* opsExecuted stays 0.
C8_InvalidFlagsAreFatal ==
    ((style \notin {"stress", "real"}) \/ workers <= 0) =>
        /\ mainPC \in {"parse", "fatal"}
        /\ readerOpen = FALSE
        /\ dpc = "none"
        /\ rpc = "none"
        /\ \A w \in WorkerIds : wpc[w] = "none" /\ calls[w] = 0
        /\ delivered = 0
        /\ opsChan = <<>>
        /\ opsExecuted = 0

C8_Witness ==
    /\ mainPC = "fatal"
    /\ style = "stress"
    /\ workers = 0
    /\ srcLen > 0

\* C9: with verbose off no per-op message is emitted, neither an op's
\* error nor a retry notice, whatever the op's outcome; with verbose on the
\* final error of an op, the error of the retry included, is logged.
C9_VerboseGatesOpMessages ==
    \A w \in WorkerIds :
        /\ (verbose = FALSE => ~retryLogged[w] /\ ~errLogged[w])
        /\ (verbose = TRUE /\ wpc[w] = "count" /\ err[w] # "nil" => errLogged[w])

\* the run replays an empty source in stress mode
EmptyStress == style = "stress" /\ srcLen = 0 /\ workers > 0

\* C10: with an empty source in stress mode the sentinels are still
\* produced with no op delivered: no worker ever invokes the executor,
\* every worker leaves its loop, and the coordinator returns with
\* opsExecuted = 0.
C10_EmptySourceTerminates ==
    /\ [](EmptyStress =>
            /\ delivered = 0
            /\ opsExecuted = 0
            /\ \A w \in WorkerIds : calls[w] = 0 /\ wpc[w] \notin HoldingPCs
            /\ SumCounts = 0)
    /\ [](EmptyStress /\ mainPC = "returned" =>
            CleanReturn /\ AllSentinelsSent /\ opsExecuted = 0)
    /\ (EmptyStress ~> mainPC = "returned")

C10_Witness ==
    /\ EmptyStress
    /\ workers = MaxWorkers
    /\ CleanReturn
    /\ sentinels = workers
    /\ opsExecuted = 0


\* C11: source exhaustion ends the run only in stress mode: there the
\* dispatcher turns to the sentinels at the end of the source (or at
\* maxOps); in real mode the end of the source restarts the source and
\* dispatch goes on, and the dispatcher finishes only with maxOps ops
\* dispatched.
C11_ExhaustionEndsOnlyStress ==
    /\ (style = "stress" /\ DispatchFinished =>
            Exhausted \/ Wide(delivered) = maxOps)
    /\ (style = "stress" /\ dpc = "run" /\ Exhausted => ENABLED DispatchEnd)
    /\ (style = "real" /\ DispatchFinished => Wide(delivered) = maxOps)
    /\ (style = "real" /\ dpc = "run" /\ Exhausted /\ srcLen > 0
            /\ WideLess(Wide(delivered), maxOps) =>
                ENABLED DispatchRestart /\ ~ENABLED DispatchEnd)

C11_Witness ==
    /\ style = "real"
    /\ dpc = "done"
    /\ srcLen > 0
    /\ delivered > srcLen
    /\ Wide(delivered) = maxOps

\* C16: the reporter leaves its periodic loop only when opsExecuted has
\* reached maxOps: while fewer than maxOps ops have been delivered (a
\* source shorter than maxOps, or maxOps = 0 rewritten to 4294967295) it is
\* never past the loop and has made no final report, also when every worker
\* has finished.
C16_ReporterLeavesOnlyAtMaxOps ==
    /\ (rpc \in {"final", "done"} \/ finalReports > 0 =>
            ~WideLess(Wide(opsExecuted), maxOps))
    /\ (WideLess(Wide(delivered), maxOps) =>
            rpc \notin {"final", "done"} /\ finalReports = 0)

C16_Witness ==
    /\ maxOpsFlag = 0
    /\ srcLen = MaxSrcLen
    /\ opsExecuted = srcLen
    /\ mainPC = "wait"
    /\ received = workers
    /\ \A w \in Started : wpc[w] = "done"
    /\ rpc = "sleep"
    /\ finalReports = 0

\* the ids of the ops held by workers and of the ops in the queue
HeldIds == {op[w].id : w \in Holding}
QueuedIds == {opsChan[i].id : i \in QueuedOps}

\* C17: every op the dispatcher puts on the queue is dequeued and executed
\* by exactly one worker: no op is held by two workers or both held and
\* queued, every delivered op is queued, held or counted, and when the
\* coordinator returns opsExecuted is the number of ops delivered.
C17_EachOpExecutedOnce ==
    /\ Cardinality(HeldIds) = Cardinality(Holding)
    /\ Cardinality(QueuedIds) = Cardinality(QueuedOps)
    /\ HeldIds \cap QueuedIds = {}
    /\ HeldIds \cup QueuedIds \subseteq 1..delivered
    /\ opsExecuted + Cardinality(HeldIds \cup QueuedIds) = delivered
    /\ (mainPC = "returned" => opsExecuted = delivered /\ opsChan = <<>>)

C17_Witness ==
    /\ mainPC = "returned"
    /\ workers = 2
    /\ maxOpsFlag = 2
    /\ srcLen = 2
    /\ opsExecuted = 2

\* C18: opsExecuted starts at 0, never decreases, changes only by steps of
\* +1 made by a worker that counts its op, and is always at most the number
\* of ops delivered so far, which is at most maxOps.
C18_CounterMonotoneAndBounded ==
    /\ opsExecuted = 0
    /\ [][\/ opsExecuted' = opsExecuted
          \/ /\ opsExecuted' = opsExecuted + 1
             /\ \E w \in WorkerIds : wpc[w] = "count" /\ wpc'[w] = "pull"]_vars
    /\ [](opsExecuted <= delivered /\ ~WideLess(maxOps, Wide(delivered)))

C18_Witness ==
    /\ opsExecuted = 2
    /\ delivered = 2
    /\ maxOpsFlag = 2


\* C14: when the first attempt fails with a transient error the session is
\* refreshed exactly once, in the step between the first and the second
\* invocation of the executor, and what is returned for the op is what the
\* second attempt returned, whatever it is; the session is not refreshed
\* when the first attempt succeeds or fails with a permanent error.
C14_RefreshOnceThenSecondResult ==
    /\ [](\A w \in WorkerIds :
            /\ (wpc[w] = "retry" => refreshed[w] = 0 /\ calls[w] = 1)
            /\ (wpc[w] = "count" /\ first[w] \in Permanent \cup {"nil"} =>
                    refreshed[w] = 0 /\ err[w] = first[w])
            /\ (wpc[w] = "count" /\ first[w] \notin Permanent \cup {"nil"} =>
                    refreshed[w] = 1 /\ calls[w] = 2 /\ err[w] = second[w]))
    /\ [][\A w \in WorkerIds :
            refreshed'[w] > refreshed[w] =>
                /\ refreshed[w] = 0
                /\ first[w] \notin Permanent \cup {"nil"}
                /\ calls[w] = 1
                /\ calls'[w] = 2]_vars

C14_Witness ==
    \E v, w \in WorkerIds :
        /\ wpc[v] = "count" /\ first[v] = "socket" /\ second[v] = "nil"
        /\ err[v] = "nil" /\ refreshed[v] = 1
        /\ wpc[w] = "count" /\ first[w] = "socket" /\ second[w] = "QueryError"
        /\ err[w] = "QueryError" /\ refreshed[w] = 1


\* the analyzer's buffer size, from the flags as given
ConfiguredSize ==
    IF maxOpsFlag = 0
    THEN WideScale(<<Radix - 1, Radix - 1>>, sampleRate, RateDen)
    ELSE Wide((sampleRate * maxOpsFlag) \div RateDen)

\* the newest n elements of a sequence
Newest(seq, n) == SubSeq(seq, Len(seq) - n + 1, Len(seq))

\* C12: the analyzer never retains more samples than its configured size,
\* int(sampleRate * maxOps) with maxOps as parseFlags left it; the samples
\* a report moves from the channel to a full buffer push the oldest ones
\* out, so that the buffer holds the newest ones.
C12_RetainedWithinCapacity ==
    /\ [](~WideLess(ConfiguredSize, Wide(Len(latencies))))
    /\ [][latencies' # latencies \/ Len(latencyChan') < Len(latencyChan) =>
            LET all == latencies \o latencyChan
            IN  /\ latencyChan' = <<>>
                /\ latencies' =
                    IF WideLess(ConfiguredSize, Wide(Len(all)))
                    THEN Newest(all, ConfiguredSize[2])
                    ELSE all]_vars

C12_Witness ==
    /\ sampleRate = RateDen
    /\ maxOpsFlag = 1
    /\ latencies = <<1>>
    /\ latencyChan = <<>>
    /\ \E w \in WorkerIds : wpc[w] = "count" /\ calls[w] = 2 /\ obs[w] = "sent"

\* the steps worker w can take while it holds an op
HoldingStep(w) ==
    \/ RetryFirstAttempt(w)
    \/ RetrySecondAttempt(w)
    \/ FetchCount(w)
    \/ KeepSample(w)
    \/ SendSample(w)

\* C15: in its loop a worker blocks only on the pull from the op queue:
\* a worker that holds an op can always take its next step, in particular
\* it never waits to send a latency sample on a full sample channel.
C15_BlocksOnlyOnPull ==
    \A w \in WorkerIds :
        Running /\ wpc[w] \in HoldingPCs =>
            /\ ENABLED HoldingStep(w)
            /\ ~(obs[w] = "sending" /\ Len(latencyChan) >= LatencyChanCap)


\* C13: maxOps = 0 means no limit: a stress run with -maxOps 0 delivers
\* every op of the source, however long the source is.
C13_ZeroMaxOpsDeliversAll ==
    style = "stress" /\ maxOpsFlag = 0 /\ DispatchFinished => delivered = srcLen


\* the position the reader is to have when dispatch starts: past the ops
\* before the start timestamp and past numSkipOps further ops
ExpectedStart ==
    Cardinality({i \in 1..srcLen : stamps[i] < startTime}) + numSkipOps

\* C19: in both modes the timestamp seek is applied first and the count
\* skip second, both before the dispatcher exists: when the dispatcher
\* starts the reader is past the ops before the start timestamp and past
\* numSkipOps further ops, with nothing dispatched yet, and the first op
\* dispatched is the (numSkipOps + 1)-th op that is not before the start
\* timestamp (in real mode: when the file has such an op); an option left
\* at 0 moves the reader by nothing.
C19_SeekThenSkipBeforeDispatch ==
    /\ [][dpc = "none" /\ dpc' = "run" =>
            /\ readerPos' = ExpectedStart
            /\ delivered' = 0
            /\ opsChan' = <<>>]_vars
    /\ [][delivered = 0 /\ delivered' = 1
            /\ (style = "stress" \/ ExpectedStart < srcLen) =>
                readerPos' = ExpectedStart + 1]_vars
    /\ [](startTime = 0 /\ numSkipOps = 0 /\ dpc = "run" /\ delivered = 0 =>
            readerPos = 0)

C19_Witness ==
    /\ style = "real"
    /\ startTime = 2
    /\ numSkipOps = 1
    /\ stamps = <<1, 2, 2>>
    /\ delivered = 1
    /\ readerPos = 3

====
